---- MODULE Spec2Model ----
(***************************************************************************)
(* SoundDitect backend: the WebSocket session protocol of                  *)
(* backend/main.py (websocket_audio_endpoint), the inference orchestrator  *)
(* (process_audio_message), the model manager's load/predict/baseline      *)
(* path (backend/model_manager.py), the signal conditioner                 *)
(* (backend/audio_processor.py) and the connection registry                *)
(* (backend/websocket_manager.py).                                         *)
(*                                                                         *)
(* Units.  Audio samples are integers in hundredths (100 is amplitude      *)
(* 1.0).  Confidences and the baseline's anomaly score are integers in     *)
(* units of 1e-5 (50000 is 0.5).  Means and square roots round down.       *)
(* Python's None is the string "none".                                     *)
(***************************************************************************)
EXTENDS Integers, Sequences, FiniteSets, TLC

VARIABLES
    active_connections, \* WebSocketManager.active_connections: the registered client ids
    client_metadata,    \* WebSocketManager.client_metadata: the client ids with metadata
    total_connections,  \* WebSocketManager.total_connections
    lock,               \* WebSocketManager._lock: "free" or the task holding it
    pc,                 \* per connection: the endpoint coroutine's position
    recording_session,  \* per connection: the endpoint's local recording_session
    is_processing,      \* per connection: the endpoint's local is_processing
    cur,                \* per connection: the message receive_text returned last
    inbox,              \* per connection: frames sent by the client, not yet received
    outbox,             \* per connection: frames the server sent, in order
    transport,          \* per connection: "closed", "up", "client_gone", "server_closed"
    arrived,            \* per connection: number of frames the client has sent
    inflight,           \* per connection: arrival numbers of the frames being handled
    removed,            \* per connection: times its id was deleted from the registry
    last,               \* per connection: what handling the last frame did
    model,              \* ModelManager.model: "none", "partial", "baseline", "trained",
                        \* or "untrained" (the one train_model builds)
    prediction_count,   \* ModelManager.prediction_count
    app,                \* the application: "starting" until startup_event has run
    bg,                 \* the registry's background tasks (heartbeat, shutdown)
    training,           \* the train_model task, the weight updates and the model's mode
    call,               \* a direct call of process_audio_message: its input and result
    clock,              \* the event loop's time, each client's last_activity in
                        \* client_metadata, and the time of its last protocol frame
    clearml             \* ModelManager's experiment tracking: clearml_enabled, task,
                        \* clearml_connection_disabled, clearml_retry_count, and
                        \* what the last _safe_clearml_operation did

vars == << active_connections, client_metadata, total_connections, lock, pc,
           recording_session, is_processing, cur, inbox, outbox, transport,
           arrived, inflight, removed, last, model, prediction_count, app, bg,
           training, call, clock, clearml >>

(***************************************************************************)
(* Bounds of the model.                                                    *)
(***************************************************************************)
MaxMsgs == 3        \* frames one client sends on the single-connection protocol
MaxRegMsgs == 1     \* frames a client sends beside the registry's background tasks
MaxOrderMsgs == 2   \* frames each client sends when connections run concurrently
InputLength == 2    \* config['model']['input_length'], scaled down
MaxPredictions == 4 \* cap of the prediction counter
MaxUpdates == 2     \* cap of the number of weight updates of a training run
MaxEvals == 2       \* calls of the baseline heuristic that are compared
MaxTime == 2        \* the last tick of the event loop's clock
StaleTimeout == 1   \* the timeout of cleanup_stale_connections, in ticks
MaxOps == 16        \* tracked operations that are executed

Clients == {"c1", "c2"}
None == "none"
Sids == {"s1", "s2"}

(***************************************************************************)
(* Arithmetic helpers.                                                     *)
(***************************************************************************)
Abs(x) == IF x < 0 THEN -x ELSE x
Min2(a, b) == IF a < b THEN a ELSE b
Max2(a, b) == IF a > b THEN a ELSE b

SumSeq(s) ==
    LET acc[i \in 0..Len(s)] == IF i = 0 THEN 0 ELSE acc[i - 1] + s[i]
    IN acc[Len(s)]

MaxAbs(s) ==
    LET acc[i \in 0..Len(s)] == IF i = 0 THEN 0 ELSE Max2(acc[i - 1], Abs(s[i]))
    IN acc[Len(s)]

AbsSeq(s) == [i \in 1..Len(s) |-> Abs(s[i])]
SqSeq(s) == [i \in 1..Len(s) |-> s[i] * s[i]]
Zeros(n) == [i \in 1..n |-> 0]

\* IEEE not-a-number, as a sample of a float32 payload and as a value
\* computed from one: it is no number of the model's range, every
\* comparison with it is false and every sum with it is NaN again
NaN == -1000000
HasNaN(s) == \E i \in 1..Len(s) : s[i] = NaN

\* floor of the square root
ISqrt(n) == CHOOSE r \in 0..(n + 1) : r * r <= n /\ (r + 1) * (r + 1) > n

(***************************************************************************)
(* Signal conditioner (backend/audio_processor.py).                        *)
(***************************************************************************)
\* config['preprocessing']: the stages that are switched on
ApplyFilterEnabled == TRUE
NormalizeEnabled == TRUE

\* _apply_filter: scipy's filtfilt raises on an input no longer than its pad
\* length, which every signal of this model is; the except branch returns
\* the input unchanged.
ApplyFilter(audio) == audio

\* _normalize_audio: remove the DC offset, scale by the peak unless it is 0
Centre(audio, mean) == [i \in 1..Len(audio) |-> audio[i] - mean]
ScaleByPeak(audio, max_val) ==
    IF max_val > 0
    THEN [i \in 1..Len(audio) |-> (audio[i] * 100) \div max_val]
    ELSE audio
ScaleToPeak(centred) == ScaleByPeak(centred, MaxAbs(centred))
NormalizeAudio(audio) ==
    IF audio = <<>> THEN audio  \* np.max of an empty array raises: caught, unchanged
    ELSE IF HasNaN(audio)
    THEN \* the mean is NaN and so is every centred sample; max_val > 0 is false
         [i \in 1..Len(audio) |-> NaN]
    ELSE ScaleToPeak(Centre(audio, SumSeq(audio) \div Len(audio)))

\* _adjust_length: keep the trailing target_length samples, or pad with zeros
AdjustLength(audio) ==
    IF Len(audio) > InputLength
    THEN SubSeq(audio, Len(audio) - InputLength + 1, Len(audio))
    ELSE IF Len(audio) < InputLength
         THEN audio \o Zeros(InputLength - Len(audio))
         ELSE audio

\* The sample_rate handed to preprocess: absent or the target rate (no
\* resampling), half the target rate, or a value librosa.resample rejects.
SampleRates == {"absent", "target", "half", "invalid"}

\* librosa.resample from half the target rate: twice as many samples (the
\* values are held here, librosa interpolates them); it raises on a value
\* that is no rate and on an empty signal ("too small to resample")
Resample(audio, sample_rate) ==
    IF sample_rate \in {"absent", "target"}
    THEN [raised |-> FALSE, audio |-> audio]
    ELSE IF sample_rate = "invalid" \/ audio = <<>>
    THEN [raised |-> TRUE, audio |-> <<>>]
    ELSE [raised |-> FALSE,
          audio |-> [i \in 1..(2 * Len(audio)) |-> audio[(i + 1) \div 2]]]

FilterStage(audio) == IF ApplyFilterEnabled THEN ApplyFilter(audio) ELSE audio
NormalizeStage(audio) == IF NormalizeEnabled THEN NormalizeAudio(audio) ELSE audio

\* preprocess after the resampling stage: rs is what the stage did; an
\* exception of it is re-raised (lines 102-104)
PreprocessResampled(rs) ==
    IF rs.raised
    THEN [raised |-> TRUE, audio |-> <<>>]
    ELSE [raised |-> FALSE,
          audio |-> AdjustLength(NormalizeStage(FilterStage(rs.audio)))]

Preprocess(audio_data, sample_rate) ==
    PreprocessResampled(Resample(audio_data, sample_rate))

\* create_sliding_windows, lines 250-256: np.zeros raises on a negative
\* number of rows; row i is audio[i * hop_size : i * hop_size + window_size]
WindowsOf(audio, num_windows, window_size, hop_size) ==
    IF num_windows < 0
    THEN [raised |-> TRUE, windows |-> <<>>]
    ELSE [raised |-> FALSE,
          windows |-> [i \in 1..num_windows |->
                          SubSeq(audio, (i - 1) * hop_size + 1,
                                 (i - 1) * hop_size + window_size)]]

\* create_sliding_windows; // rounds towards minus infinity, as \div does
CreateSlidingWindows(audio, window_size, hop_size) ==
    WindowsOf(audio, (Len(audio) - window_size) \div hop_size + 1,
              window_size, hop_size)

(***************************************************************************)
(* Model manager (backend/model_manager.py).                               *)
(***************************************************************************)
\* What the environment decides during one inference: the checkpoint on disk,
\* whether create_model passes its memory checks, and whether the forward
\* pass raises or which (prediction, confidence) it yields.
Checkpoints == {"missing", "good", "mismatch", "corrupt"}
Forwards == {"raise", "ok", "ng"}
Envs == [ckpt : Checkpoints, createOk : BOOLEAN, fwd : Forwards]

\* _get_baseline_prediction, lines 913-918: the statistics of the signal
Rms(audio_data) == ISqrt(SumSeq(SqSeq(audio_data)) \div Len(audio_data))
MeanAbs(audio_data) == SumSeq(AbsSeq(audio_data)) \div Len(audio_data)
VarianceOf(n, sumsq, total) == (n * sumsq - total * total) \div (n * n)
Variance(audio_data) ==
    VarianceOf(Len(audio_data), SumSeq(SqSeq(audio_data)), SumSeq(audio_data))

\* a score whose amplitude factor counts amplitudes up to full scale only
AnomalyScoreFullScaleOnly(max_amplitude, rms, mean_amplitude, variance) ==
    Min2(100000, Max2(0,
          (IF max_amplitude > 30 /\ max_amplitude <= 100 THEN 400 * max_amplitude ELSE 0)
        + (IF rms > 5 THEN 300 * rms ELSE 0)
        + (IF variance > 100 THEN 2 * variance ELSE 0)
        + (IF max_amplitude - mean_amplitude > 10
           THEN 100 * (max_amplitude - mean_amplitude) ELSE 0)))

\* lines 920-941: the additive anomaly score, clamped to [0, 1]
AnomalyScore(max_amplitude, rms, mean_amplitude, variance) ==
    Min2(100000, Max2(0,
          (IF max_amplitude > 30 THEN 400 * max_amplitude ELSE 0)
        + (IF rms > 5 THEN 300 * rms ELSE 0)
        + (IF variance > 100 THEN 2 * variance ELSE 0)
        + (IF max_amplitude - mean_amplitude > 10
           THEN 100 * (max_amplitude - mean_amplitude) ELSE 0)))

\* a rule that calls a score of exactly the threshold an anomaly
BaselineDecisionInclusive(anomaly_score) ==
    IF anomaly_score >= 40000
    THEN [prediction |-> 1, confidence |-> Min2(80000, 50000 + anomaly_score)]
    ELSE [prediction |-> 0, confidence |-> Max2(30000, 70000 - anomaly_score)]

\* lines 943-955: the threshold rule
BaselineDecision(anomaly_score) ==
    IF anomaly_score > 40000
    THEN [prediction |-> 1, confidence |-> Min2(80000, 50000 + anomaly_score)]
    ELSE [prediction |-> 0, confidence |-> Max2(30000, 70000 - anomaly_score)]

\* _get_baseline_prediction
BaselinePrediction(audio_data) ==
    IF audio_data = <<>>
    THEN [prediction |-> 0, confidence |-> 50000]
    ELSE IF HasNaN(audio_data)
    THEN \* every statistic is NaN, no factor's test passes, the score stays 0
         BaselineDecision(0)
    ELSE BaselineDecision(AnomalyScore(MaxAbs(audio_data), Rms(audio_data),
                                       MeanAbs(audio_data), Variance(audio_data)))

\* The argument of _get_baseline_prediction: None, an array of samples, or
\* an object the arithmetic of lines 913-918 raises on.
NullSignal == [kind |-> "null", samples |-> <<>>]
BadSignal == [kind |-> "unusable", samples |-> <<>>]
ArraySignal(samples) == [kind |-> "array", samples |-> samples]

\* a heuristic whose answer without a usable signal is the zero default
GetBaselinePredictionZero(x) ==
    IF x.kind = "array" /\ x.samples /= <<>>
    THEN [raised |-> FALSE, result |-> BaselinePrediction(x.samples)]
    ELSE [raised |-> FALSE, result |-> [prediction |-> 0, confidence |-> 0]]

\* _get_baseline_prediction, with its None test (line 908) and its except
\* clause (lines 957-961)
GetBaselinePrediction(x) ==
    IF x.kind = "array"
    THEN [raised |-> FALSE, result |-> BaselinePrediction(x.samples)]
    ELSE [raised |-> FALSE, result |-> [prediction |-> 0, confidence |-> 50000]]

\* a load that gives up when the checkpoint cannot be loaded
LoadModelNoFallback(m, env) ==
    CASE env.ckpt = "good" -> [model |-> "trained", ok |-> TRUE]
      [] env.ckpt = "mismatch" -> [model |-> "partial", ok |-> FALSE]
      [] env.ckpt = "corrupt" -> [model |-> m, ok |-> FALSE]
      [] OTHER ->
            IF env.createOk THEN [model |-> "baseline", ok |-> TRUE]
            ELSE [model |-> m, ok |-> FALSE]

\* load_model: the new value of self.model and the returned flag
LoadModel(m, env) ==
    CASE env.ckpt = "good" -> [model |-> "trained", ok |-> TRUE]
      [] env.ckpt = "mismatch" ->
            \* the model built from the detected architecture is assigned, then
            \* load_state_dict raises and the fallback runs
            IF env.createOk THEN [model |-> "baseline", ok |-> TRUE]
            ELSE [model |-> "partial", ok |-> FALSE]
      [] OTHER ->
            \* no checkpoint, or one torch.load cannot read
            IF env.createOk THEN [model |-> "baseline", ok |-> TRUE]
            ELSE [model |-> m, ok |-> FALSE]

\* The mode of self.model (nn.Module.training): load_model ends with
\* self.model.eval(); a model assigned before load_state_dict raised is still
\* in the mode it was built in
ModeAfterLoad(mode, before, after) ==
    IF after = before THEN mode
    ELSE IF after = "partial" THEN "train" ELSE "eval"

\* a predict that does not switch the model to evaluation mode
KeepMode(mode) == mode

\* predict, line 877: self.model.eval() before the forward pass
EvalBeforeForward(mode) == "eval"

\* the mode after process_audio_message: source says whether predict got
\* as far as the forward pass
ModeAfter(mode, before, after, source) ==
    IF source \in {"model", "baseline"} THEN EvalBeforeForward(mode)
    ELSE ModeAfterLoad(mode, before, after)

\* is_model_loaded
IsModelLoaded(m) == m /= "none"

AllZero(s) == \A i \in 1..Len(s) : s[i] = 0

\* a forward pass whose outcome on silence is up to the weights as well
ForwardAnyWeights(m, audio_data, env) ==
    IF env.fwd = "ok" THEN [prediction |-> 0, confidence |-> 90000]
    ELSE [prediction |-> 1, confidence |-> 60000]

\* the forward pass with softmax and argmax over the two classes.  The
\* weights decide, except that the model of _initialize_baseline_model has
\* every bias 0 and so maps the zero signal to the logits (0, 0): class 0
\* with probability 0.5
Forward(m, audio_data, env) ==
    IF HasNaN(audio_data)
    THEN \* the logits and the softmax are NaN; torch.max hands the NaN on
         [prediction |-> IF env.fwd = "ok" THEN 0 ELSE 1, confidence |-> NaN]
    ELSE IF m = "baseline" /\ AllZero(audio_data)
    THEN [prediction |-> 0, confidence |-> 50000]
    ELSE IF env.fwd = "ok" THEN [prediction |-> 0, confidence |-> 90000]
    ELSE [prediction |-> 1, confidence |-> 60000]

Predicted(m, count, source, result) ==
    [model |-> m, count |-> count, source |-> source,
     prediction |-> result.prediction, confidence |-> result.confidence]

\* a predict that forgets to count
PredictWithModelNoCount(m, count, audio_data, env) ==
    IF audio_data = <<>>
    THEN Predicted(m, count, "empty", [prediction |-> 0, confidence |-> 50000])
    ELSE IF env.fwd = "raise"
    THEN Predicted(m, count, "baseline", BaselinePrediction(AdjustLength(audio_data)))
    ELSE Predicted(m, count, "model", Forward(m, AdjustLength(audio_data), env))

\* predict, lines 862-900, with self.model set
PredictWithModel(m, count, audio_data, env) ==
    IF audio_data = <<>>
    THEN Predicted(m, count, "empty", [prediction |-> 0, confidence |-> 50000])
    ELSE IF env.fwd = "raise"
    THEN Predicted(m, count, "baseline", BaselinePrediction(AdjustLength(audio_data)))
    ELSE Predicted(m, count + 1, "model",
                   Forward(m, AdjustLength(audio_data), env))

\* predict, lines 855-860: after the load attempt ld
PredictAfterLoad(ld, count, audio_data, env) ==
    IF ~ld.ok
    THEN Predicted(ld.model, count, "baseline", BaselinePrediction(audio_data))
    ELSE PredictWithModel(ld.model, count, audio_data, env)

\* predict: the prediction, and the new model and prediction_count
Predict(m, count, audio_data, env) ==
    IF m = "none"
    THEN PredictAfterLoad(LoadModel(m, env), count, audio_data, env)
    ELSE PredictWithModel(m, count, audio_data, env)

(***************************************************************************)
(* Inference orchestrator (backend/main.py, process_audio_message).        *)
(***************************************************************************)
\* The data field of a message: absent, or base64 text that decodes (or not)
\* to 4 * Len(samples) + tail bytes.
NoData == [present |-> FALSE, b64ok |-> TRUE, samples |-> <<>>, tail |-> 0]
Payload(samples) == [present |-> TRUE, b64ok |-> TRUE, samples |-> samples, tail |-> 0]
BadBase64 == [present |-> TRUE, b64ok |-> FALSE, samples |-> <<>>, tail |-> 0]
Ragged == [present |-> TRUE, b64ok |-> TRUE, samples |-> <<0>>, tail |-> 1]
Silence == Payload(<<0, 0>>)
Loud == Payload(<<100, -100, 100>>)
NotFinite == Payload(<<NaN, NaN>>)

Result(outcome, m, count, source, prediction, confidence, audio_length, error) ==
    [outcome |-> outcome, model |-> m, count |-> count, source |-> source,
     prediction |-> prediction, confidence |-> confidence,
     audio_length |-> audio_length, error |-> error]

\* the except handler of process_audio_message: the safe default result
DefaultResult(m, count, why) ==
    Result("returned", m, count, "default", 0, 0, 0, why)

\* an empty frame answered without its warning
EmptyResultNoWarning(m, count) ==
    Result("returned", m, count, "empty", 0, 50000, 0, "")

\* lines 331-340: the result for a payload of zero samples
EmptyResult(m, count) ==
    Result("returned", m, count, "empty", 0, 50000, 0, "Empty audio data")

\* lines 363-394: the prediction p as the result record
ResultOfPrediction(p, audio_length) ==
    Result("returned", p.model, p.count, p.source, p.prediction, p.confidence,
           audio_length, "")

\* lines 355-361, then the prediction: ld is the model after the load attempt
InferAfterLoad(ld, count, audio_array, processed_audio, env) ==
    IF ~ld.ok
    THEN DefaultResult(ld.model, count, "Failed to load model for prediction")
    ELSE ResultOfPrediction(Predict(ld.model, count, processed_audio, env),
                            Len(audio_array))

\* lines 347-353, then the rest: pre is what preprocess did
InferAfterPreprocess(pre, m, count, audio_array, env) ==
    IF pre.raised
    THEN DefaultResult(m, count, "Audio preprocessing failed")
    ELSE InferAfterLoad(IF IsModelLoaded(m) THEN [model |-> m, ok |-> TRUE]
                        ELSE LoadModel(m, env),
                        count, audio_array, pre.audio, env)

\* process_audio_message(data): input.isdict says whether data is a dict
ProcessAudioMessage(input, m, count, env) ==
    IF ~input.isdict
    THEN \* the ValueError is caught, and the handler's data.get raises
         Result("raised", m, count, "none", 0, 0, 0, "AttributeError")
    ELSE IF ~input.data.present
    THEN DefaultResult(m, count, "Invalid audio data format")
    ELSE IF ~input.data.b64ok
    THEN DefaultResult(m, count, "Failed to decode base64 audio data")
    ELSE IF input.data.tail /= 0
    THEN DefaultResult(m, count, "Failed to convert audio data to numpy array")
    ELSE IF input.data.samples = <<>>
    THEN EmptyResult(m, count)
    ELSE InferAfterPreprocess(Preprocess(input.data.samples, input.sample_rate),
                              m, count, input.data.samples, env)

(***************************************************************************)
(* Wire messages.                                                          *)
(***************************************************************************)
\* An inbound text frame: text says whether it parses as a JSON object.
Frame(type, sid, data, rate) ==
    [text |-> "object", type |-> type, session_id |-> sid, data |-> data,
     sample_rate |-> rate]
StartRecording(sid) == Frame("start_recording", sid, NoData, "absent")
StopRecording(sid) == Frame("stop_recording", sid, NoData, "absent")
AudioData(sid, data, rate) == Frame("audio_data", sid, data, rate)
Ping == Frame("ping", None, NoData, "absent")
UnknownType == Frame("bogus", None, NoData, "absent")
NoType == Frame(None, None, NoData, "absent")
NotJson == [Frame(None, None, NoData, "absent") EXCEPT !.text = "notjson"]
NotObject == [Frame(None, None, NoData, "absent") EXCEPT !.text = "notobject"]
NoFrame == [Frame(None, None, NoData, "absent") EXCEPT !.text = "noframe"]

\* An outbound JSON frame; warning is "" when the key is absent, message is the
\* text of an error event (the fixed captions of the other frames are left out).
Reply(type, sid) ==
    [type |-> type, session_id |-> sid, prediction |-> 0, confidence |-> 0,
     status |-> "", audio_length |-> 0, warning |-> "", message |-> ""]

DetectionResult(sid, r) ==
    [Reply("detection_result", sid) EXCEPT
        !.prediction = r.prediction,
        !.confidence = r.confidence,
        !.status = IF r.prediction = 0 THEN "OK" ELSE "NG",
        !.audio_length = r.audio_length,
        !.warning = r.error]

ErrorEvent(sid, why) == [Reply("error", sid) EXCEPT !.message = why]

(***************************************************************************)
(* websocket_audio_endpoint: what handling one received frame does.        *)
(* st is [rs, ip, model, count]: recording_session, is_processing and the  *)
(* model manager's model and prediction_count; up says whether a send on   *)
(* the socket succeeds.  The value is the new st, the frames sent, whether *)
(* process_audio_message ran, and where the loop goes: "recv", or          *)
(* "cleanup" when an exception left the loop.                              *)
(***************************************************************************)
Step(st, replies, inferred, next) ==
    [rs |-> st.rs, ip |-> st.ip, model |-> st.model, count |-> st.count,
     replies |-> replies, inferred |-> inferred, next |-> next, source |-> "none"]

\* json.loads raises on text that is not JSON, data.get on a non-object
HandleMalformed(st) == Step(st, <<>>, FALSE, "cleanup")

StartedStep(bound, up) ==
    IF up
    THEN Step(bound, << Reply("recording_started", bound.rs) >>, FALSE, "recv")
    ELSE Step(bound, <<>>, FALSE, "cleanup")

\* a start that marks the session active and binds nothing
HandleStartUnbound(m, st, up) == StartedStep([st EXCEPT !.ip = TRUE], up)

HandleStart(m, st, up) == StartedStep([st EXCEPT !.rs = m.session_id, !.ip = TRUE], up)

\* a stop that answers but leaves the session bound
HandleStopKeepsBinding(m, st, up) ==
    IF m.session_id = st.rs /\ up
    THEN Step([st EXCEPT !.ip = FALSE], << Reply("recording_stopped", st.rs) >>,
              FALSE, "recv")
    ELSE Step(st, <<>>, FALSE, IF m.session_id = st.rs THEN "cleanup" ELSE "recv")

HandleStop(m, st, up) ==
    IF m.session_id = st.rs
    THEN IF up
         THEN Step([st EXCEPT !.ip = FALSE, !.rs = None],
                   << Reply("recording_stopped", st.rs) >>, FALSE, "recv")
         ELSE Step([st EXCEPT !.ip = FALSE], <<>>, FALSE, "cleanup")
    ELSE Step(st, <<>>, FALSE, "recv")

\* a gate that forgets to compare the session ids
AudioAcceptedAnySession(m, st) == st.ip

\* the gate of the audio_data branch
AudioAccepted(m, st) == st.ip /\ m.session_id = st.rs

\* a handler that lets a failed frame end the loop without an answer
ReplyToAudioFatal(st, r, up) ==
    IF r.error /= ""
    THEN [Step([st EXCEPT !.model = r.model, !.count = r.count], <<>>, TRUE, "cleanup")
          EXCEPT !.source = r.source]
    ELSE [Step([st EXCEPT !.model = r.model, !.count = r.count],
               IF up THEN << DetectionResult(st.rs, r) >> ELSE <<>>, TRUE, "recv")
          EXCEPT !.source = r.source]

\* lines 225-277: r is what process_audio_message did
ReplyToAudio(st, r, up) ==
    [Step([st EXCEPT !.model = r.model, !.count = r.count],
          IF ~up THEN <<>>  \* a failed send is caught, and so is the failed error send
          ELSE IF r.outcome = "raised" THEN << ErrorEvent(st.rs, r.error) >>
          ELSE << DetectionResult(st.rs, r) >>,
          TRUE, "recv")
     EXCEPT !.source = r.source]

HandleAudio(m, st, up, env) ==
    IF AudioAccepted(m, st)
    THEN ReplyToAudio(st,
             ProcessAudioMessage(
                 [isdict |-> TRUE, data |-> m.data, sample_rate |-> m.sample_rate],
                 st.model, st.count, env),
             up)
    ELSE Step(st, <<>>, FALSE, "recv")

\* a ping that is answered only while no recording is active
HandlePingIdleOnly(st, up) ==
    IF st.ip THEN Step(st, <<>>, FALSE, "recv")
    ELSE IF up THEN Step(st, << Reply("pong", None) >>, FALSE, "recv")
    ELSE Step(st, <<>>, FALSE, "cleanup")

HandlePing(st, up) ==
    IF up THEN Step(st, << Reply("pong", None) >>, FALSE, "recv")
    ELSE Step(st, <<>>, FALSE, "cleanup")

\* an unknown type that ends the connection
HandleUnknownFatal(st) == Step(st, <<>>, FALSE, "cleanup")

\* the else branch: the unknown type is logged
HandleUnknown(st) == Step(st, <<>>, FALSE, "recv")

HandleMessage(m, st, up, env) ==
    IF m.text /= "object" THEN HandleMalformed(st)
    ELSE CASE m.type = "start_recording" -> HandleStart(m, st, up)
           [] m.type = "stop_recording" -> HandleStop(m, st, up)
           [] m.type = "audio_data" -> HandleAudio(m, st, up, env)
           [] m.type = "ping" -> HandlePing(st, up)
           [] OTHER -> HandleUnknown(st)

(***************************************************************************)
(* State.                                                                  *)
(***************************************************************************)
NoLast ==
    [seq |-> 0, msg |-> NoFrame, pre_rs |-> None, pre_ip |-> FALSE,
     pre_count |-> 0, inferred |-> FALSE, replies |-> <<>>, next |-> "recv",
     up |-> TRUE, source |-> "none"]

NoCall ==
    [phase |-> "idle",
     input |-> [isdict |-> TRUE, data |-> NoData, sample_rate |-> "absent"],
     env |-> [ckpt |-> "missing", createOk |-> TRUE, fwd |-> "ok"],
     pre_model |-> "none", pre_count |-> 0,
     result |-> DefaultResult("none", 0, "")]

\* ModelManager.__init__, lines 377-380, before _init_clearml has run
NoTracking ==
    [phase |-> "new", enabled |-> FALSE, task |-> None, connection_disabled |-> FALSE,
     retry_count |-> 0, op |-> "none", pre_count |-> 0, executed |-> 0]

IdleTasks ==
    [hb |-> [pc |-> "idle", sends |-> [c \in Clients |-> "none"], stale |-> {}, at |-> 0],
     sd |-> [pc |-> "idle", todo |-> {}]]

Init ==
    /\ active_connections = {}
    /\ client_metadata = {}
    /\ total_connections = 0
    /\ lock = "free"
    /\ pc = [c \in Clients |-> "new"]
    /\ recording_session = [c \in Clients |-> None]
    /\ is_processing = [c \in Clients |-> FALSE]
    /\ cur = [c \in Clients |-> [seq |-> 0, msg |-> NoFrame]]
    /\ inbox = [c \in Clients |-> <<>>]
    /\ outbox = [c \in Clients |-> <<>>]
    /\ transport = [c \in Clients |-> "closed"]
    /\ arrived = [c \in Clients |-> 0]
    /\ inflight = [c \in Clients |-> {}]
    /\ removed = [c \in Clients |-> 0]
    /\ last = [c \in Clients |-> NoLast]
    /\ model = "none"
    /\ prediction_count = 0
    /\ app = "starting"
    /\ bg = IdleTasks
    /\ training = [pc |-> "idle", weights |-> 0, mode |-> "eval"]
    /\ call = NoCall
    /\ clock = [now |-> 0, last_activity |-> [c \in Clients |-> 0],
                last_message |-> [c \in Clients |-> 0]]
    /\ clearml = NoTracking

registryVars == << active_connections, client_metadata, total_connections, lock, removed >>
sessionVars == << recording_session, is_processing, cur, last, inflight >>
wireVars == << inbox, outbox, transport, arrived >>
modelVars == << model, prediction_count, training >>

(***************************************************************************)
(* startup_event: load the model before any connection is served.          *)
(***************************************************************************)
Startup(envs) ==
    /\ app = "starting"
    /\ \E env \in envs :
          /\ model' = LoadModel(model, env).model
          /\ training' = [training EXCEPT
                 !.mode = ModeAfterLoad(@, model, LoadModel(model, env).model)]
    /\ app' = "running"
    /\ UNCHANGED << registryVars, sessionVars, wireVars, pc, prediction_count, bg, call, clock, clearml >>

(***************************************************************************)
(* WebSocketManager.connect and disconnect: the body under the lock has no *)
(* await, so taking the lock, the body and the release are one step.       *)
(***************************************************************************)
\* a connect that forgets the metadata entry
ManagerConnectNoMetadata(c) ==
    /\ lock = "free"
    /\ active_connections' = active_connections \cup {c}
    /\ total_connections' = total_connections + 1
    /\ UNCHANGED << client_metadata, lock, removed, clock >>

ManagerConnect(c) ==
    /\ lock = "free"
    /\ active_connections' = active_connections \cup {c}
    /\ client_metadata' = client_metadata \cup {c}
    /\ clock' = [clock EXCEPT !.last_activity[c] = clock.now]
    /\ total_connections' = total_connections + 1
    /\ UNCHANGED << lock, removed >>

\* a disconnect without the membership test
ManagerDisconnectUnchecked(c) ==
    /\ lock = "free"
    /\ active_connections' = active_connections \ {c}
    /\ client_metadata' = client_metadata \ {c}
    /\ removed' = [removed EXCEPT ![c] = @ + 1]
    /\ UNCHANGED << lock, total_connections >>

ManagerDisconnect(c) ==
    /\ lock = "free"
    /\ IF c \in active_connections
       THEN /\ active_connections' = active_connections \ {c}
            /\ client_metadata' = client_metadata \ {c}
            /\ removed' = [removed EXCEPT ![c] = @ + 1]
       ELSE UNCHANGED << active_connections, client_metadata, removed >>
    /\ UNCHANGED << lock, total_connections >>

(***************************************************************************)
(* websocket_audio_endpoint, one coroutine per connection.                 *)
(***************************************************************************)
\* the client opens the socket and websocket.accept() returns
Accept(c) ==
    /\ app = "running"
    /\ pc[c] = "new"
    /\ transport' = [transport EXCEPT ![c] = "up"]
    /\ pc' = [pc EXCEPT ![c] = "connect"]
    /\ UNCHANGED << registryVars, sessionVars, inbox, outbox, arrived, modelVars, app, bg, call, clock, clearml >>

Connect(c) ==
    /\ pc[c] = "connect"
    /\ ManagerConnect(c)
    /\ pc' = [pc EXCEPT ![c] = "greet"]
    /\ UNCHANGED << sessionVars, wireVars, modelVars, app, bg, call, clearml >>

\* send connection_established; a failed send leaves through the handlers
Greet(c) ==
    /\ pc[c] = "greet"
    /\ IF transport[c] = "up"
       THEN /\ outbox' = [outbox EXCEPT ![c] =
                   Append(@, [re |-> 0, body |-> Reply("connection_established", None)])]
            /\ clock' = [clock EXCEPT !.last_message[c] = clock.now]
            /\ pc' = [pc EXCEPT ![c] = "recv"]
       ELSE /\ pc' = [pc EXCEPT ![c] = "cleanup"]
            /\ UNCHANGED << outbox, clock >>
    /\ UNCHANGED << registryVars, sessionVars, inbox, transport, arrived, modelVars, app, bg, call, clearml >>

\* a loop that takes the next frame while the previous one is being handled
ReceiveReadyWhileHandling(c) == pc[c] \in {"recv", "handle"}

\* receive_text returns the oldest frame
ReceiveReady(c) == pc[c] = "recv"

Receive(c) ==
    /\ ReceiveReady(c)
    /\ inbox[c] /= <<>>
    /\ cur' = [cur EXCEPT ![c] = Head(inbox[c])]
    /\ inbox' = [inbox EXCEPT ![c] = Tail(@)]
    /\ inflight' = [inflight EXCEPT ![c] = @ \cup {Head(inbox[c]).seq}]
    /\ clock' = [clock EXCEPT !.last_message[c] = clock.now]
    /\ pc' = [pc EXCEPT ![c] = "handle"]
    /\ UNCHANGED << registryVars, recording_session, is_processing, last, outbox,
                    transport, arrived, modelVars, app, bg, call, clearml >>

\* receive_text raises: the peer is gone and nothing is queued, or the
\* server side closed the socket
ReceiveClosed(c) ==
    /\ pc[c] = "recv"
    /\ \/ transport[c] = "server_closed"
       \/ transport[c] = "client_gone" /\ inbox[c] = <<>>
    /\ pc' = [pc EXCEPT ![c] = "cleanup"]
    /\ UNCHANGED << registryVars, sessionVars, wireVars, modelVars, app, bg, call, clock, clearml >>

\* the effect of one pass of the loop body: h is what HandleMessage computed
ApplyStep(c, m, st, up, h) ==
    /\ recording_session' = [recording_session EXCEPT ![c] = h.rs]
    /\ is_processing' = [is_processing EXCEPT ![c] = h.ip]
    /\ model' = h.model
    /\ prediction_count' = h.count
    /\ training' = [training EXCEPT !.mode = ModeAfter(@, st.model, h.model, h.source)]
    /\ outbox' = [outbox EXCEPT ![c] =
           @ \o [i \in 1..Len(h.replies) |-> [re |-> cur[c].seq, body |-> h.replies[i]]]]
    /\ clock' = IF h.replies = <<>> THEN clock
                ELSE [clock EXCEPT !.last_message[c] = clock.now]
    /\ pc' = [pc EXCEPT ![c] = h.next]
    /\ inflight' = [inflight EXCEPT ![c] = @ \ {cur[c].seq}]
    /\ last' = [last EXCEPT ![c] =
           [seq |-> cur[c].seq, msg |-> m, pre_rs |-> st.rs, pre_ip |-> st.ip,
            pre_count |-> st.count, inferred |-> h.inferred, replies |-> h.replies,
            next |-> h.next, up |-> up, source |-> h.source]]

HandleWith(c, m, st, up, env) == ApplyStep(c, m, st, up, HandleMessage(m, st, up, env))

\* the body of the loop, from json.loads to the next receive_text
Handle(c, envs) ==
    /\ pc[c] = "handle"
    /\ prediction_count < MaxPredictions
    /\ \E env \in envs :
         HandleWith(c, cur[c].msg,
                    [rs |-> recording_session[c], ip |-> is_processing[c],
                     model |-> model, count |-> prediction_count],
                    transport[c] = "up", env)
    /\ UNCHANGED << registryVars, cur, inbox, transport, arrived, app, bg, call, clearml >>

\* finally: await websocket_manager.disconnect(client_id)
Cleanup(c) ==
    /\ pc[c] = "cleanup"
    /\ ManagerDisconnect(c)
    /\ pc' = [pc EXCEPT ![c] = "closed"]
    /\ UNCHANGED << sessionVars, wireVars, modelVars, app, bg, call, clock, clearml >>

(***************************************************************************)
(* The client of a connection.                                             *)
(***************************************************************************)
ClientSend(c, m, limit) ==
    /\ transport[c] = "up"
    /\ arrived[c] < limit
    /\ arrived' = [arrived EXCEPT ![c] = @ + 1]
    /\ inbox' = [inbox EXCEPT ![c] = Append(@, [seq |-> arrived[c] + 1, msg |-> m])]
    /\ UNCHANGED << registryVars, sessionVars, pc, outbox, transport, modelVars, app, bg, call, clock, clearml >>

\* a client that sends its next frame once the previous one was taken
ClientSendNext(c, m, limit) ==
    /\ inbox[c] = <<>>
    /\ ClientSend(c, m, limit)

ClientDrop(c) ==
    /\ transport[c] = "up"
    /\ transport' = [transport EXCEPT ![c] = "client_gone"]
    /\ UNCHANGED << registryVars, sessionVars, pc, inbox, outbox, arrived, modelVars, app, bg, call, clock, clearml >>

(***************************************************************************)
(* The session protocol on one connection.                                 *)
(***************************************************************************)
ProtoMessages ==
    {StartRecording(s) : s \in Sids \cup {None}}
    \cup {StopRecording(s) : s \in Sids \cup {None}}
    \cup {AudioData(s, Silence, "target") : s \in Sids \cup {None}}
    \cup {AudioData("s1", BadBase64, "absent"), AudioData("s1", Loud, "invalid"),
          AudioData("s1", Payload(<<>>), "absent"), AudioData("s1", Loud, "absent"),
          AudioData("s1", NotFinite, "absent")}
    \cup {Ping, UnknownType, NoType, NotJson, NotObject}

\* no checkpoint on disk: the model is the freshly initialised one, or none
ProtoEnvs == {env \in Envs : env.ckpt = "missing"}

Next ==
    \/ Startup(ProtoEnvs)
    \/ Accept("c1")
    \/ Connect("c1")
    \/ Greet("c1")
    \/ Receive("c1")
    \/ ReceiveClosed("c1")
    \/ Handle("c1", ProtoEnvs)
    \/ Cleanup("c1")
    \/ \E m \in ProtoMessages : ClientSendNext("c1", m, MaxMsgs)
    \/ ClientDrop("c1")

Spec == Init /\ [][Next]_vars

(***************************************************************************)
(* process_audio_message called on its own (specification SpecInfer).      *)
(***************************************************************************)
NotADict == [isdict |-> FALSE, data |-> NoData, sample_rate |-> "absent"]
OrchInputs ==
    {NotADict}
    \cup [isdict : {TRUE}, data : {NoData, BadBase64, Ragged, Payload(<<>>)},
          sample_rate : {"absent"}]
    \cup [isdict : {TRUE}, data : {Silence, Loud}, sample_rate : SampleRates]

Called(input, env, r) ==
    /\ call' = [phase |-> "done", input |-> input, env |-> env,
                pre_model |-> model, pre_count |-> prediction_count, result |-> r]
    /\ IF r.outcome = "returned"
       THEN /\ model' = r.model
            /\ prediction_count' = r.count
            /\ training' = [training EXCEPT
                   !.mode = ModeAfter(@, model, r.model, r.source)]
       ELSE UNCHANGED modelVars

CallProcess ==
    /\ app = "running"
    /\ prediction_count < MaxPredictions
    /\ \E input \in OrchInputs, env \in Envs :
          Called(input, env, ProcessAudioMessage(input, model, prediction_count, env))
    /\ UNCHANGED << registryVars, sessionVars, wireVars, pc, app, bg, clock, clearml >>

NextInfer ==
    \/ Startup(Envs)
    \/ CallProcess

SpecInfer == Init /\ [][NextInfer]_vars

(***************************************************************************)
(* Experiment tracking (backend/model_manager.py: _init_clearml,           *)
(* _try_reenable_clearml, _safe_clearml_operation; specification           *)
(* SpecTracking).  clearml.op is what the last call of                     *)
(* _safe_clearml_operation did ("skipped": it returned before the          *)
(* operation), pre_count the counter when it was entered, executed the     *)
(* number of operations run so far.                                        *)
(***************************************************************************)
DisableThreshold == 15  \* line 545: clearml_retry_count >= 15
ReenableLimit == 10     \* line 523: clearml_retry_count < 10

\* _init_clearml: Task.init gave a task object (tracking is on, also when a
\* later step of the initialisation failed), or none
InitClearml ==
    /\ clearml.phase = "new"
    /\ \E created \in BOOLEAN :
          clearml' = [clearml EXCEPT !.phase = "ready", !.enabled = created,
                                     !.task = IF created THEN "task" ELSE None]
    /\ UNCHANGED << registryVars, sessionVars, wireVars, modelVars, pc, app, bg, call, clock >>

\* _try_reenable_clearml: available is CLEARML_AVAILABLE, init_ok whether
\* Task.init and the calls after it go through
TryReenableClearml(st, available, init_ok) ==
    IF ~available THEN st
    ELSE IF st.task /= None THEN [st EXCEPT !.connection_disabled = FALSE]
    ELSE IF init_ok
    THEN [st EXCEPT !.task = "task", !.enabled = TRUE, !.connection_disabled = FALSE,
                    !.retry_count = 0]
    ELSE st

\* a handler that switches tracking off one failure late
ConnectionErrorLate(st, count) ==
    [st EXCEPT !.connection_disabled = TRUE,
               !.retry_count = count,
               !.enabled = IF count > DisableThreshold THEN FALSE ELSE @,
               !.task = IF count > DisableThreshold THEN None ELSE @]

\* lines 539-551: a connection error; count is the incremented counter
ConnectionError(st, count) ==
    [st EXCEPT !.connection_disabled = TRUE,
               !.retry_count = count,
               !.enabled = IF count >= DisableThreshold THEN FALSE ELSE @,
               !.task = IF count >= DisableThreshold THEN None ELSE @]

\* lines 528-556: the operation runs and succeeds, raises a connection
\* error, or raises another error
RunOperation(st, outcome) ==
    CASE outcome = "success" ->
            IF st.connection_disabled \/ st.retry_count > 0
            THEN [st EXCEPT !.connection_disabled = FALSE, !.retry_count = 0]
            ELSE st
      [] outcome = "connection" -> ConnectionError(st, st.retry_count + 1)
      [] OTHER -> st

\* lines 525-556: st is the state after the attempt to re-enable
SafeAfterReenable(st, outcome, pre_count) ==
    IF ~st.enabled \/ st.task = None
    THEN [st EXCEPT !.op = "skipped", !.pre_count = pre_count]
    ELSE [RunOperation(st, outcome) EXCEPT !.op = outcome, !.pre_count = pre_count,
                                           !.executed = @ + 1]

\* _safe_clearml_operation
SafeClearmlOperation(st, outcome, available, init_ok) ==
    SafeAfterReenable(
        IF /\ ~st.enabled \/ st.task = None
           /\ st.connection_disabled
           /\ st.retry_count < ReenableLimit
        THEN TryReenableClearml(st, available, init_ok)
        ELSE st,
        outcome, st.retry_count)

SafeOperation ==
    /\ clearml.phase = "ready"
    /\ clearml.executed < MaxOps
    /\ \E outcome \in {"success", "connection", "other"},
          available \in BOOLEAN, init_ok \in BOOLEAN :
          clearml' = SafeClearmlOperation(clearml, outcome, available, init_ok)
    /\ UNCHANGED << registryVars, sessionVars, wireVars, modelVars, pc, app, bg, call, clock >>

NextTracking ==
    \/ InitClearml
    \/ SafeOperation

SpecTracking == Init /\ [][NextTracking]_vars

(***************************************************************************)
(* load_model and predict called on the manager directly, as               *)
(* test_model_fix.py does (specification SpecLoad).  call records the last *)
(* call; loaded says whether a load_model call has returned True so far,   *)
(* the one predict makes included.                                         *)
(***************************************************************************)
Loaded(env, pre_model, ld) ==
    /\ model' = ld.model
    /\ training' = [training EXCEPT !.mode = ModeAfterLoad(@, pre_model, ld.model)]
    /\ call' = [phase |-> "loaded", env |-> env, pre_model |-> pre_model, ok |-> ld.ok,
                loaded |-> ld.ok \/ (call.phase /= "idle" /\ call.loaded)]

\* manager.load_model()
LoadCall ==
    /\ \E env \in Envs : Loaded(env, model, LoadModel(model, env))
    /\ UNCHANGED << registryVars, sessionVars, wireVars, pc, prediction_count, app, bg, clock, clearml >>

\* the inputs of predict: silence and a tone of the input length, and a
\* signal one sample longer
TestAudio ==
    {Zeros(InputLength), [i \in 1..InputLength |-> 50],
     [i \in 1..(InputLength + 1) |-> IF i % 2 = 1 THEN 100 ELSE -100]}

PredictDone(audio_data, env, pre_model, p) ==
    /\ model' = p.model
    /\ prediction_count' = p.count
    /\ training' = [training EXCEPT !.mode = ModeAfter(@, pre_model, p.model, p.source)]
    /\ call' = [phase |-> "predicted", env |-> env, pre_model |-> pre_model,
                audio_data |-> audio_data, result |-> p,
                \* predict calls load_model itself when there is no model
                loaded |-> \/ call.phase /= "idle" /\ call.loaded
                           \/ pre_model = "none" /\ LoadModel(pre_model, env).ok]

\* manager.predict(test_audio)
PredictCall ==
    /\ prediction_count < MaxPredictions
    /\ \E audio_data \in TestAudio, env \in Envs :
          PredictDone(audio_data, env, model,
                      Predict(model, prediction_count, audio_data, env))
    /\ UNCHANGED << registryVars, sessionVars, wireVars, pc, app, bg, clock, clearml >>

NextLoad ==
    \/ LoadCall
    \/ PredictCall

SpecLoad == Init /\ [][NextLoad]_vars

(***************************************************************************)
(* The conditioner and the baseline heuristic called on their own          *)
(* (specification SpecSignal), on every signal of up to twice the input    *)
(* length.                                                                 *)
(***************************************************************************)
SampleValues == {-100, 0, 50}
Signals == UNION {[1..n -> SampleValues] : n \in 0..(2 * InputLength)}

\* audio_processor.preprocess(audio_data, sample_rate)
Condition ==
    /\ call.phase = "idle"
    /\ \E audio_data \in Signals, sample_rate \in SampleRates :
          call' = [phase |-> "conditioned", audio_data |-> audio_data,
                   sample_rate |-> sample_rate,
                   resampled |-> Resample(audio_data, sample_rate),
                   out |-> Preprocess(audio_data, sample_rate)]
    /\ UNCHANGED << registryVars, sessionVars, wireVars, modelVars, pc, app, bg, clock, clearml >>

\* model_manager._get_baseline_prediction(audio_data)
Score ==
    /\ call.phase = "idle"
    /\ \E x \in {NullSignal, BadSignal} \cup {ArraySignal(a) : a \in Signals} :
          call' = [phase |-> "scored", arg |-> x, out |-> GetBaselinePrediction(x)]
    /\ UNCHANGED << registryVars, sessionVars, wireVars, modelVars, pc, app, bg, clock, clearml >>

\* audio_processor.create_sliding_windows(audio, window_size, hop_size)
WindowSizes == 1..(InputLength + 1)
HopSizes == 1..InputLength
Window ==
    /\ call.phase = "idle"
    /\ \E audio \in Signals, window_size \in WindowSizes, hop_size \in HopSizes :
          call' = [phase |-> "windowed", audio |-> audio, window_size |-> window_size,
                   hop_size |-> hop_size,
                   out |-> CreateSlidingWindows(audio, window_size, hop_size)]
    /\ UNCHANGED << registryVars, sessionVars, wireVars, modelVars, pc, app, bg, clock, clearml >>

\* The statistics lines 913-918 hand to the score, in the model's units:
\* the mean amplitude is at most the RMS, the RMS at most the peak, and the
\* variance at most the mean square (all rounded down).
Amplitudes == {0, 10, 11, 30, 31, 80, 250}
Statistics ==
    {s \in [max_amplitude : Amplitudes, rms : {0, 6, 30}, mean_amplitude : {0, 5},
            variance : {0, 101}] :
        /\ s.mean_amplitude <= s.rms
        /\ s.rms <= s.max_amplitude
        /\ s.variance <= (s.rms + 1) * (s.rms + 1)}

\* lines 920-955 on the statistics s
Evaluation(s, anomaly_score) ==
    [stats |-> s, anomaly_score |-> anomaly_score,
     result |-> BaselineDecision(anomaly_score)]

\* _get_baseline_prediction on a signal with the statistics s; the
\* evaluations so far are kept for comparison
Evaluate ==
    /\ call.phase \in {"idle", "evaluated"}
    /\ call.phase = "evaluated" => Len(call.evals) < MaxEvals
    /\ \E s \in Statistics :
          call' = [phase |-> "evaluated",
                   evals |-> Append(IF call.phase = "idle" THEN <<>> ELSE call.evals,
                                    Evaluation(s, AnomalyScore(s.max_amplitude, s.rms,
                                                  s.mean_amplitude, s.variance)))]
    /\ UNCHANGED << registryVars, sessionVars, wireVars, modelVars, pc, app, bg, clock, clearml >>

NextSignal ==
    \/ Condition
    \/ Score
    \/ Evaluate
    \/ Window

SpecSignal == Init /\ [][NextSignal]_vars

(***************************************************************************)
(* The registry's other users (backend/websocket_manager.py): the          *)
(* heartbeat task (ping_all_clients, then cleanup_stale_connections) and   *)
(* shutdown_event's disconnect_all.                                        *)
(***************************************************************************)
othersVars == << sessionVars, inbox, arrived, modelVars, app, call, pc >>

\* broadcast: snapshot the registered clients and start one
\* send_personal_message task per client
HbBroadcast ==
    /\ app = "running"
    /\ bg.hb.pc = "idle"
    /\ IF active_connections = {}
       THEN bg' = [bg EXCEPT !.hb.pc = "scan"]
       ELSE bg' = [bg EXCEPT !.hb.pc = "sending",
                             !.hb.sends = [c \in Clients |->
                                 IF c \in active_connections THEN "queued" ELSE "none"]]
    /\ UNCHANGED << registryVars, othersVars, outbox, transport, clock, clearml >>

\* send_personal_message up to its await: the membership test
SendStart(c) ==
    /\ bg.hb.pc = "sending"
    /\ bg.hb.sends[c] = "queued"
    /\ bg' = [bg EXCEPT !.hb.sends[c] =
                 IF c \in active_connections THEN "sending" ELSE "done"]
    /\ UNCHANGED << registryVars, othersVars, outbox, transport, clock, clearml >>

\* send_text returns and last_activity is set (if the client still has
\* metadata), or it raises and the except branch is entered
SendFinish(c) ==
    /\ bg.hb.pc = "sending"
    /\ bg.hb.sends[c] = "sending"
    /\ IF transport[c] = "up"
       THEN /\ outbox' = [outbox EXCEPT ![c] =
                   Append(@, [re |-> 0, body |-> Reply("ping", None)])]
            /\ clock' = [clock EXCEPT
                   !.last_message[c] = clock.now,
                   !.last_activity[c] = IF c \in client_metadata THEN clock.now ELSE @]
            /\ bg' = [bg EXCEPT !.hb.sends[c] = "done"]
       ELSE /\ bg' = [bg EXCEPT !.hb.sends[c] = "failed"]
            /\ UNCHANGED << outbox, clock >>
    /\ UNCHANGED << registryVars, othersVars, transport, clearml >>

\* the except branch: await self.disconnect(client_id)
SendFailed(c) ==
    /\ bg.hb.pc = "sending"
    /\ bg.hb.sends[c] = "failed"
    /\ ManagerDisconnect(c)
    /\ bg' = [bg EXCEPT !.hb.sends[c] = "done"]
    /\ UNCHANGED << othersVars, outbox, transport, clock, clearml >>

\* gather returns once every send task is over
HbGathered ==
    /\ bg.hb.pc = "sending"
    /\ \A c \in Clients : bg.hb.sends[c] \in {"none", "done"}
    /\ bg' = [bg EXCEPT !.hb.pc = "scan", !.hb.sends = [c \in Clients |-> "none"]]
    /\ UNCHANGED << registryVars, othersVars, outbox, transport, clock, clearml >>

\* lines 231-236: the clients whose last_activity is older than the timeout
StaleClients(timeout) ==
    {c \in client_metadata : clock.now - clock.last_activity[c] > timeout}

\* cleanup_stale_connections: the scan of client_metadata.  found holds the
\* possible results: the one the clock gives, or any at all where the clock
\* is left open
HbScan(found) ==
    /\ bg.hb.pc = "scan"
    /\ \E stale \in found :
          bg' = [bg EXCEPT !.hb.pc = "cleaning", !.hb.stale = stale, !.hb.at = clock.now]
    /\ UNCHANGED << registryVars, othersVars, outbox, transport, clock, clearml >>

\* for client_id in stale_clients: await self.disconnect(client_id)
HbDisconnect(c) ==
    /\ bg.hb.pc = "cleaning"
    /\ c \in bg.hb.stale
    /\ ManagerDisconnect(c)
    /\ bg' = [bg EXCEPT !.hb.stale = @ \ {c}]
    /\ UNCHANGED << othersVars, outbox, transport, clock, clearml >>

HbSleep ==
    /\ bg.hb.pc = "cleaning"
    /\ bg.hb.stale = {}
    /\ bg' = [bg EXCEPT !.hb.pc = "done"]
    /\ UNCHANGED << registryVars, othersVars, outbox, transport, clock, clearml >>

\* disconnect_all: take the lock and list the registered clients
SdStart ==
    /\ app = "running"
    /\ bg.sd.pc = "idle"
    /\ lock = "free"
    /\ lock' = "sd"
    /\ bg' = [bg EXCEPT !.sd.pc = "closing", !.sd.todo = active_connections]
    /\ UNCHANGED << active_connections, client_metadata, total_connections, removed,
                    othersVars, outbox, transport, clock, clearml >>

\* await websocket.close(), with the lock held; an error is logged
SdClose(c) ==
    /\ bg.sd.pc = "closing"
    /\ c \in bg.sd.todo
    /\ transport' = [transport EXCEPT ![c] = "server_closed"]
    /\ bg' = [bg EXCEPT !.sd.todo = @ \ {c}]
    /\ UNCHANGED << registryVars, othersVars, outbox, clock, clearml >>

\* clear both dictionaries and release the lock
SdClear ==
    /\ bg.sd.pc = "closing"
    /\ bg.sd.todo = {}
    /\ removed' = [c \in Clients |->
                      IF c \in active_connections THEN removed[c] + 1 ELSE removed[c]]
    /\ active_connections' = {}
    /\ client_metadata' = {}
    /\ lock' = "free"
    /\ bg' = [bg EXCEPT !.sd.pc = "done"]
    /\ UNCHANGED << total_connections, othersVars, outbox, transport, clock, clearml >>

\* cleanup_stale_connections(timeout) called on its own
CleanupCall ==
    /\ app = "running"
    /\ bg.hb.pc = "idle"
    /\ bg' = [bg EXCEPT !.hb.pc = "scan"]
    /\ UNCHANGED << registryVars, othersVars, outbox, transport, clock, clearml >>

\* the event loop's clock moves on
Tick ==
    /\ clock.now < MaxTime
    /\ clock' = [clock EXCEPT !.now = @ + 1]
    /\ UNCHANGED << registryVars, othersVars, outbox, transport, bg, clearml >>

RegEnvs == {env \in Envs : env.ckpt = "missing" /\ env.createOk /\ env.fwd = "ok"}

\* c1 also sends frames on its connection; c2 only connects and leaves
NextRegistry ==
    \/ Startup(RegEnvs)
    \/ \E c \in Clients :
          \/ Accept(c)
          \/ Connect(c)
          \/ Greet(c)
          \/ Receive(c)
          \/ ReceiveClosed(c)
          \/ Handle(c, RegEnvs)
          \/ Cleanup(c)
          \/ ClientDrop(c)
          \/ SendStart(c)
          \/ SendFinish(c)
          \/ SendFailed(c)
          \/ HbDisconnect(c)
          \/ SdClose(c)
    \/ ClientSendNext("c1", Ping, MaxRegMsgs)
    \/ HbBroadcast
    \/ HbGathered
    \/ HbScan(SUBSET client_metadata)
    \/ HbSleep
    \/ SdStart
    \/ SdClear

SpecRegistry == Init /\ [][NextRegistry]_vars

(***************************************************************************)
(* A connection beside a call of cleanup_stale_connections, with the clock *)
(* (specification SpecStale).                                              *)
(***************************************************************************)
NextStale ==
    \/ Startup(RegEnvs)
    \/ Accept("c1")
    \/ Connect("c1")
    \/ Greet("c1")
    \/ Receive("c1")
    \/ ReceiveClosed("c1")
    \/ Handle("c1", RegEnvs)
    \/ Cleanup("c1")
    \/ ClientSendNext("c1", Ping, MaxRegMsgs)
    \/ ClientDrop("c1")
    \/ CleanupCall
    \/ HbScan({StaleClients(StaleTimeout)})
    \/ HbDisconnect("c1")
    \/ HbSleep
    \/ Tick

SpecStale == Init /\ [][NextStale]_vars

(***************************************************************************)
(* Connections served concurrently, each client sending frames without     *)
(* waiting for the answers (specification SpecOrder).                      *)
(***************************************************************************)
OrderMessages == {Ping, StartRecording("s1")}

NextOrder ==
    \/ Startup(RegEnvs)
    \/ \E c \in Clients :
          \/ Accept(c)
          \/ Connect(c)
          \/ Greet(c)
          \/ Receive(c)
          \/ ReceiveClosed(c)
          \/ Handle(c, RegEnvs)
          \/ Cleanup(c)
          \/ \E m \in OrderMessages : ClientSend(c, m, MaxOrderMsgs)
          \/ ClientDrop(c)

SpecOrder == Init /\ [][NextOrder]_vars

(***************************************************************************)
(* The nominal session (specification SpecNominal): every client connects  *)
(* and sends start_recording{s1}, one frame of silence at the target rate  *)
(* and stop_recording{s1}; no checkpoint is on disk and the model can be   *)
(* built.                                                                  *)
(***************************************************************************)
Script == << StartRecording("s1"), AudioData("s1", Silence, "target"), StopRecording("s1") >>

ClientScript(c) ==
    /\ arrived[c] < Len(Script)
    /\ ClientSend(c, Script[arrived[c] + 1], Len(Script))

NominalEnvs == {env \in Envs : env.ckpt = "missing" /\ env.createOk}

NextNominal ==
    \/ Startup(NominalEnvs)
    \/ \E c \in Clients :
          \/ Accept(c)
          \/ Connect(c)
          \/ Greet(c)
          \/ Receive(c)
          \/ ReceiveClosed(c)
          \/ Handle(c, NominalEnvs)
          \/ Cleanup(c)
          \/ ClientScript(c)
          \/ ClientDrop(c)

SpecNominal == Init /\ [][NextNominal]_vars

(***************************************************************************)
(* Training beside the sessions (specification SpecTrain): /api/train      *)
(* starts train_model as a task on the same event loop.  The task runs     *)
(* from one await asyncio.sleep(0) to the next; every step below is one    *)
(* such stretch.  process_audio_message has no await that suspends, so an  *)
(* inference is one step of the endpoint, as in the other specifications.  *)
(***************************************************************************)
\* start_training and train_model up to the first sleep(0): the data
\* loaders, self.model = self.create_model(), the memory check, then
\* _train_epoch: self.model.train() and the first batch
TrainStart(envs) ==
    /\ app = "running"
    /\ training.pc = "idle"
    /\ \E data \in BOOLEAN, memory \in BOOLEAN, env \in envs :
          IF data /\ env.createOk
          THEN /\ model' = "untrained"
               /\ training' = IF memory
                               THEN [pc |-> "train", weights |-> 1, mode |-> "train"]
                               ELSE [training EXCEPT !.pc = "done", !.mode = "train"]
          ELSE /\ training' = [training EXCEPT !.pc = "done"]
               /\ UNCHANGED model
    /\ UNCHANGED << registryVars, sessionVars, wireVars, pc, prediction_count, app, bg, call, clock, clearml >>

\* _train_epoch: the next batches with their optimizer.step(), up to the sleep(0)
TrainBatches ==
    /\ training.pc = "train"
    /\ training.weights < MaxUpdates
    /\ training' = [training EXCEPT !.weights = @ + 1]
    /\ UNCHANGED << registryVars, sessionVars, wireVars, pc, model, prediction_count,
                    app, bg, call, clock, clearml >>

\* the epoch's batches are over; _validate_epoch: self.model.eval() and the
\* first validation batch
Validate ==
    /\ training.pc = "train"
    /\ training' = [training EXCEPT !.pc = "validate", !.mode = "eval"]
    /\ UNCHANGED << registryVars, sessionVars, wireVars, pc, model, prediction_count,
                    app, bg, call, clock, clearml >>

\* validation is over: the next epoch starts with self.model.train() and its
\* first batch, or the loop ends
EpochEnd ==
    /\ training.pc = "validate"
    /\ \E more \in BOOLEAN :
          IF more /\ training.weights < MaxUpdates
          THEN training' = [pc |-> "train", weights |-> training.weights + 1,
                            mode |-> "train"]
          ELSE training' = [training EXCEPT !.pc = "done"]
    /\ UNCHANGED << registryVars, sessionVars, wireVars, pc, model, prediction_count,
                    app, bg, call, clock, clearml >>

\* an exception in an epoch ends train_model through its except clause
TrainAbort ==
    /\ training.pc \in {"train", "validate"}
    /\ training' = [training EXCEPT !.pc = "done"]
    /\ UNCHANGED << registryVars, sessionVars, wireVars, pc, model, prediction_count,
                    app, bg, call, clock, clearml >>

NextTrain ==
    \/ Startup(ProtoEnvs)
    \/ \E c \in Clients :
          \/ Accept(c)
          \/ Connect(c)
          \/ Greet(c)
          \/ Receive(c)
          \/ Handle(c, ProtoEnvs)
          \/ ClientScript(c)
    \/ TrainStart(ProtoEnvs)
    \/ TrainBatches
    \/ Validate
    \/ EpochEnd
    \/ TrainAbort

SpecTrain == Init /\ [][NextTrain]_vars

(***************************************************************************)
(* Properties of the session protocol (specification Spec).                *)
(* last[c] records the frame the loop body handled last on connection c,   *)
(* the session state before it, and what the body did; the session state   *)
(* after it is the current one, since only the loop body changes it.       *)
(***************************************************************************)
Handled(c, type) == last[c].seq > 0 /\ last[c].msg.text = "object" /\ last[c].msg.type = type
GateOpen(c) == last[c].pre_ip /\ last[c].msg.session_id = last[c].pre_rs
SessionUntouched(c) ==
    recording_session[c] = last[c].pre_rs /\ is_processing[c] = last[c].pre_ip

\* C1: an audio_data frame runs the inference and is answered only when the
\* connection is recording and the frame's session_id is the bound one; any
\* other audio_data frame is dropped: no inference, no outbound frame, the
\* session state and the prediction counter as before, the loop still running.
C1_AudioGate ==
    \A c \in Clients :
        Handled(c, "audio_data") =>
            /\ last[c].inferred => GateOpen(c)
            /\ last[c].replies /= <<>> => GateOpen(c)
            /\ GateOpen(c) => last[c].inferred
            /\ ~GateOpen(c) =>
                  /\ last[c].replies = <<>>
                  /\ SessionUntouched(c)
                  /\ prediction_count = last[c].pre_count
                  /\ last[c].next = "recv"

\* an audio_data frame for another session arrives while recording, and is dropped
C1_Witness ==
    /\ Handled("c1", "audio_data")
    /\ last["c1"].pre_ip
    /\ last["c1"].pre_rs = "s1"
    /\ last["c1"].msg.session_id = "s2"
    /\ ~last["c1"].inferred

\* C2: an audio_data frame that passes the gate is answered by exactly one
\* frame, a detection_result or an error event, as long as the socket is up,
\* and the receive loop goes on whatever failed while decoding, conditioning
\* or scoring.
C2_OneAnswer ==
    \A c \in Clients :
        (Handled(c, "audio_data") /\ GateOpen(c)) =>
            /\ last[c].next = "recv"
            /\ Len(last[c].replies) <= 1
            /\ last[c].up =>
                  /\ Len(last[c].replies) = 1
                  /\ last[c].replies[1].type \in {"detection_result", "error"}

\* a frame whose payload does not decode was accepted and answered, and the loop went on
C2_Witness ==
    /\ Handled("c1", "audio_data")
    /\ GateOpen("c1")
    /\ last["c1"].source = "default"
    /\ last["c1"].up
    /\ Len(last["c1"].replies) = 1
    /\ pc["c1"] = "recv"

\* C3: stop_recording with the bound session_id ends the recording: the
\* connection is idle, the binding is cleared and, the socket being up,
\* recording_stopped with that session_id is the one frame sent; with any
\* other session_id the session state is as before and nothing is sent.
C3_Stop ==
    \A c \in Clients :
        Handled(c, "stop_recording") =>
            IF last[c].msg.session_id = last[c].pre_rs
            THEN /\ ~is_processing[c]
                 /\ last[c].up =>
                       /\ recording_session[c] = None
                       /\ last[c].replies =
                              << Reply("recording_stopped", last[c].msg.session_id) >>
                       /\ last[c].next = "recv"
            ELSE /\ SessionUntouched(c)
                 /\ last[c].replies = <<>>
                 /\ last[c].next = "recv"

\* a recording of session s1 was stopped by stop_recording{s1}
C3_Witness ==
    /\ Handled("c1", "stop_recording")
    /\ last["c1"].pre_ip
    /\ last["c1"].pre_rs = "s1"
    /\ last["c1"].msg.session_id = "s1"
    /\ last["c1"].replies /= <<>>

\* C4: start_recording received while idle makes the connection recording,
\* bound to exactly the frame's session_id; the socket being up, the one
\* frame sent is recording_started with that session_id, and from then on
\* the gate accepts audio_data with that session_id.
C4_Start ==
    \A c \in Clients :
        (Handled(c, "start_recording") /\ ~last[c].pre_ip) =>
            /\ is_processing[c]
            /\ recording_session[c] = last[c].msg.session_id
            /\ AudioAccepted(AudioData(last[c].msg.session_id, Silence, "target"),
                             [rs |-> recording_session[c], ip |-> is_processing[c]])
            /\ last[c].up =>
                  /\ last[c].replies =
                         << Reply("recording_started", last[c].msg.session_id) >>
                  /\ last[c].next = "recv"

\* an idle connection received start_recording{s2} and answered it
C4_Witness ==
    /\ Handled("c1", "start_recording")
    /\ ~last["c1"].pre_ip
    /\ last["c1"].msg.session_id = "s2"
    /\ last["c1"].replies /= <<>>
    /\ recording_session["c1"] = "s2"

\* C5: a frame that is not a JSON object, and an accepted audio_data frame
\* whose payload is not base64 or not a whole number of samples, is answered
\* by one error event (the socket being up) and the receive loop goes on.
C5_DecodeErrorEvent ==
    \A c \in Clients :
        /\ (last[c].seq > 0 /\ last[c].msg.text \in {"notjson", "notobject"}) =>
              /\ last[c].next = "recv"
              /\ last[c].up =>
                    /\ Len(last[c].replies) = 1
                    /\ last[c].replies[1].type = "error"
        /\ (/\ Handled(c, "audio_data")
            /\ GateOpen(c)
            /\ ~last[c].msg.data.b64ok \/ last[c].msg.data.tail /= 0) =>
              /\ last[c].next = "recv"
              /\ last[c].up =>
                    /\ Len(last[c].replies) = 1
                    /\ last[c].replies[1].type = "error"

\* C6: an accepted audio_data frame whose forward pass raised (the only way
\* the scorer's result comes from the baseline heuristic here) is answered,
\* the socket being up, by a detection_result that carries a warning, and
\* the receive loop goes on.
C6_ForwardRaiseWarning ==
    \A c \in Clients :
        (/\ Handled(c, "audio_data")
         /\ GateOpen(c)
         /\ last[c].source = "baseline"
         /\ last[c].up) =>
            /\ last[c].next = "recv"
            /\ Len(last[c].replies) = 1
            /\ last[c].replies[1].type = "detection_result"
            /\ last[c].replies[1].warning /= ""

(***************************************************************************)
(* Properties of process_audio_message (specification SpecInfer).          *)
(* call records the last call: its input, what the environment decided,    *)
(* the model before it and the result.                                     *)
(***************************************************************************)
\* C7: when conditioning raises, when no model is loaded and the load attempt
\* fails, or when the forward pass raises, the result for a decodable,
\* non-empty frame carries a warning and its (prediction, confidence) is the
\* baseline heuristic's on the raw or the conditioned signal.
C7_BaselineFallback ==
    (/\ call.phase = "done"
     /\ call.input.isdict
     /\ call.input.data.present
     /\ call.input.data.b64ok
     /\ call.input.data.tail = 0
     /\ call.input.data.samples /= <<>>
     /\ \/ call.input.sample_rate = "invalid"
        \/ call.pre_model = "none" /\ ~LoadModel(call.pre_model, call.env).ok
        \/ call.env.fwd = "raise") =>
        /\ call.result.outcome = "returned"
        /\ call.result.error /= ""
        /\ \E sig \in {call.input.data.samples,
                       AdjustLength(call.input.data.samples),
                       Preprocess(call.input.data.samples, "absent").audio} :
              /\ call.result.prediction = BaselinePrediction(sig).prediction
              /\ call.result.confidence = BaselinePrediction(sig).confidence

\* C8: every call of process_audio_message returns a result record, whatever
\* the input, a value that is not a dict and a dict without data included.
C8_NeverPropagates ==
    call.phase = "done" => call.result.outcome = "returned"

(***************************************************************************)
(* Properties of the registry (specification SpecRegistry).  removed[c]    *)
(* counts how often client c was taken out of active_connections.          *)
(***************************************************************************)
\* C9: whatever the order of the endpoint's cleanup, a failed heartbeat send,
\* the stale scan and disconnect_all, a client is taken out of the registry
\* at most once, and exactly once by the time its endpoint has finished; a
\* disconnect of a client that is gone changes nothing; and the lock is held
\* only by disconnect_all, which can always take its next step.
C9_DeregisterOnce ==
    /\ \A c \in Clients :
          /\ removed[c] <= 1
          /\ c \in active_connections => removed[c] = 0
          /\ pc[c] = "closed" => removed[c] = 1 /\ c \notin active_connections
    /\ client_metadata = active_connections
    /\ lock \in {"free", "sd"}
    /\ lock = "sd" =>
          /\ bg.sd.pc = "closing"
          /\ bg.sd.todo \subseteq active_connections
          /\ ENABLED (SdClear \/ \E c \in Clients : SdClose(c))

\* disconnect_all closed c1's socket and cleared the registry, and c1's
\* endpoint then ran its own disconnect, which found nothing to remove
C9_Witness ==
    /\ pc["c1"] = "closed"
    /\ transport["c1"] = "server_closed"
    /\ bg.sd.pc = "done"
    /\ removed["c1"] = 1

(***************************************************************************)
(* Properties of the receive loops (specification SpecOrder).  Frames of a *)
(* connection are numbered in arrival order; inflight[c] holds the numbers *)
(* of the frames received and not yet handled to the end; an outbound      *)
(* frame carries in re the number of the frame it answers (0: greeting).   *)
(***************************************************************************)
\* C10: on every connection the frames are handled one at a time in arrival
\* order (the frame in hand is the successor of the last one handled, the
\* queue holds the following ones in order) and the replies in the outbox
\* are in the order of the frames they answer, with both connections served.
C10_ArrivalOrder ==
    \A c \in Clients :
        /\ Cardinality(inflight[c]) <= 1
        /\ pc[c] = "handle" => inflight[c] = {cur[c].seq}
        /\ pc[c] /= "handle" => inflight[c] = {}
        /\ last[c].seq = IF pc[c] = "handle" THEN cur[c].seq - 1 ELSE cur[c].seq
        /\ \A i \in 1..Len(inbox[c]) : inbox[c][i].seq = cur[c].seq + i
        /\ \A i, j \in 1..Len(outbox[c]) : i < j => outbox[c][i].re <= outbox[c][j].re

\* c1 sent two frames back to back and got both answers in order, while
\* c2's loop was in the middle of handling a frame
C10_Witness ==
    /\ Len(outbox["c1"]) = 3
    /\ outbox["c1"][2].re = 1
    /\ outbox["c1"][3].re = 2
    /\ pc["c2"] = "handle"

(***************************************************************************)
(* Further properties of the session protocol (specification Spec).        *)
(***************************************************************************)
\* C11: a ping is answered, the socket being up, by exactly one pong and the
\* loop goes on, whether the connection is idle or recording; the session
\* state and the bound session_id are as before.
C11_PingPong ==
    \A c \in Clients :
        Handled(c, "ping") =>
            /\ SessionUntouched(c)
            /\ ~last[c].inferred
            /\ last[c].up =>
                  /\ last[c].replies = << Reply("pong", None) >>
                  /\ last[c].next = "recv"

\* a ping arrived during the recording of session s1 and was answered
C11_Witness ==
    /\ Handled("c1", "ping")
    /\ last["c1"].pre_ip
    /\ last["c1"].pre_rs = "s1"
    /\ last["c1"].replies = << Reply("pong", None) >>
    /\ is_processing["c1"]
    /\ recording_session["c1"] = "s1"

\* C12: a frame whose type is none of the known ones, a frame without a type
\* included, is ignored: nothing is sent, the session state and the binding
\* are as before, and the receive loop goes on.
C12_UnknownIgnored ==
    \A c \in Clients :
        (/\ last[c].seq > 0
         /\ last[c].msg.text = "object"
         /\ last[c].msg.type \notin {"start_recording", "stop_recording",
                                     "audio_data", "ping"}) =>
            /\ last[c].replies = <<>>
            /\ ~last[c].inferred
            /\ SessionUntouched(c)
            /\ last[c].next = "recv"

\* a frame without a type arrived during a recording; the connection is
\* still registered and waiting for the next frame
C12_Witness ==
    /\ last["c1"].seq > 0
    /\ last["c1"].msg = NoType
    /\ last["c1"].pre_ip
    /\ pc["c1"] = "recv"
    /\ "c1" \in active_connections

C14_RegistryConsistent ==
    /\ client_metadata = active_connections
    /\ active_connections =
          {c \in Clients : pc[c] \in {"greet", "recv", "handle", "cleanup"}
                           /\ removed[c] = 0}
    /\ total_connections = Cardinality({c \in Clients : pc[c] \notin {"new", "connect"}})
    /\ \A c \in Clients :
          bg.hb.sends[c] /= "none" =>
              /\ bg.hb.pc = "sending"
              /\ pc[c] \notin {"new", "connect"}

\* a broadcast listed c1 alone; while it was sending, c2 connected and c1
\* was deregistered
C14_Witness ==
    /\ bg.hb.pc = "sending"
    /\ bg.hb.sends["c1"] \in {"queued", "sending"}
    /\ bg.hb.sends["c2"] = "none"
    /\ "c2" \in active_connections
    /\ "c1" \notin active_connections

(***************************************************************************)
(* Properties of the shared model (specification SpecTrain).               *)
(***************************************************************************)
\* C15: whatever the interleaving of the connections and the training task,
\* a step changes prediction_count by exactly the number of model
\* predictions it completes, one for the connection whose frame was scored
\* by the model and none otherwise: the counter never decreases and no
\* update is lost.
C15_CounterCounts ==
    [][prediction_count' = prediction_count
          + Cardinality({c \in Clients : last'[c] /= last[c] /\ last'[c].source = "model"})]_vars

\* both connections had a frame scored by the model while training was in
\* an epoch, and the counter shows both
C15_Witness ==
    /\ prediction_count = 2
    /\ \A c \in Clients : last[c].source = "model"
    /\ training.pc = "train"

\* C16: the step in which a connection's frame is scored by the model ends
\* with the model in evaluation mode, and within it the training task takes
\* no step: no weight update, and the model object is replaced only by the
\* inference's own load of a missing model.
C16_InferenceUndisturbed ==
    [][\A c \in Clients :
          (last'[c] /= last[c] /\ last'[c].source = "model") =>
              /\ training'.mode = "eval"
              /\ training'.weights = training.weights
              /\ training'.pc = training.pc
              /\ model' /= model => model = "none"]_vars

\* a frame was scored in the middle of a training epoch, on the model being
\* trained, which the inference left in evaluation mode
C16_Witness ==
    /\ training.pc = "train"
    /\ training.mode = "eval"
    /\ model = "untrained"
    /\ last["c1"].source = "model"
    /\ last["c1"].inferred

C18_StagesSkipped ==
    call.phase = "conditioned" =>
        /\ ~call.out.raised
        /\ Len(call.out.audio) = InputLength

\* C19: a decodable payload of zero samples gives prediction 0, confidence
\* 0.5 and the warning "Empty audio data", with no load attempt, no model
\* prediction counted and no conditioning (audio_length 0, source "empty").
C19_EmptyNeutralized ==
    (/\ call.phase = "done"
     /\ call.input.isdict
     /\ call.input.data.present
     /\ call.input.data.b64ok
     /\ call.input.data.tail = 0
     /\ call.input.data.samples = <<>>) =>
        /\ call.result.outcome = "returned"
        /\ call.result.prediction = 0
        /\ call.result.confidence = 50000
        /\ call.result.error = "Empty audio data"
        /\ call.result.audio_length = 0
        /\ call.result.source = "empty"
        /\ call.result.model = call.pre_model
        /\ model = call.pre_model
        /\ prediction_count = call.pre_count

\* an empty payload arrived while no model was loaded, and none was loaded
C19_Witness ==
    /\ call.phase = "done"
    /\ call.input.isdict
    /\ call.input.data = Payload(<<>>)
    /\ call.pre_model = "none"
    /\ model = "none"
    /\ call.result.error = "Empty audio data"

\* C20: _get_baseline_prediction raises for no argument and returns a
\* prediction of 0 or 1 with a confidence between 0.3 and 0.8; for None and
\* for an empty array the pair is exactly (0, 0.5).
C20_BaselineTotal ==
    call.phase = "scored" =>
        /\ ~call.out.raised
        /\ call.out.result.prediction \in {0, 1}
        /\ call.out.result.confidence \in 30000..80000
        /\ (call.arg.kind = "null" \/ call.arg = ArraySignal(<<>>)) =>
              call.out.result = [prediction |-> 0, confidence |-> 50000]

\* the heuristic was called with None
C20_Witness ==
    /\ call.phase = "scored"
    /\ call.arg = NullSignal
    /\ call.out.result = [prediction |-> 0, confidence |-> 50000]

\* C21: for a signal that is not empty the heuristic's answer is the
\* threshold rule on the clamped score: above 0.4 prediction 1 with
\* confidence min(0.8, 0.5 + score), otherwise (0.4 included) prediction 0
\* with confidence max(0.3, 0.7 - score).
C21_ThresholdRule ==
    /\ (call.phase = "scored" /\ call.arg.kind = "array" /\ call.arg.samples /= <<>>) =>
          LET x == call.arg.samples
              score == AnomalyScore(MaxAbs(x), Rms(x), MeanAbs(x), Variance(x))
          IN /\ ~call.out.raised
             /\ score \in 0..100000
             /\ call.out.result =
                    IF score > 40000
                    THEN [prediction |-> 1,
                          confidence |-> IF 50000 + score < 80000
                                         THEN 50000 + score ELSE 80000]
                    ELSE [prediction |-> 0,
                          confidence |-> IF 70000 - score > 30000
                                         THEN 70000 - score ELSE 30000]
    /\ call.phase = "evaluated" =>
          \A i \in 1..Len(call.evals) :
              /\ call.evals[i].anomaly_score \in 0..100000
              /\ call.evals[i].result =
                    IF call.evals[i].anomaly_score > 40000
                    THEN [prediction |-> 1,
                          confidence |-> IF 50000 + call.evals[i].anomaly_score < 80000
                                         THEN 50000 + call.evals[i].anomaly_score
                                         ELSE 80000]
                    ELSE [prediction |-> 0,
                          confidence |-> IF 70000 - call.evals[i].anomaly_score > 30000
                                         THEN 70000 - call.evals[i].anomaly_score
                                         ELSE 30000]

\* a signal whose score is exactly 0.4 was called normal, with confidence 0.3
C21_Witness ==
    /\ call.phase = "evaluated"
    /\ call.evals[1].anomaly_score = 40000
    /\ call.evals[1].result = [prediction |-> 0, confidence |-> 30000]

\* C22: of two signals with the same RMS, mean amplitude and variance the
\* one with the larger peak has the larger or the same anomaly score, on
\* both sides of the amplitude threshold 0.3 and of the dynamic-range
\* threshold 0.1 and where the score is clamped.
C22_MonotoneInPeak ==
    (call.phase = "evaluated" /\ Len(call.evals) >= 2) =>
        \A i, j \in 1..Len(call.evals) :
            (/\ call.evals[i].stats.rms = call.evals[j].stats.rms
             /\ call.evals[i].stats.mean_amplitude = call.evals[j].stats.mean_amplitude
             /\ call.evals[i].stats.variance = call.evals[j].stats.variance
             /\ call.evals[i].stats.max_amplitude <= call.evals[j].stats.max_amplitude) =>
                call.evals[i].anomaly_score <= call.evals[j].anomaly_score

\* a peak of 0.3 and then, the other statistics the same, a peak above full
\* scale whose score is clamped to 1
C22_Witness ==
    /\ call.phase = "evaluated"
    /\ Len(call.evals) >= 2
    /\ call.evals[1].stats.max_amplitude = 30
    /\ call.evals[2].stats = [call.evals[1].stats EXCEPT !.max_amplitude = 250]
    /\ call.evals[1].anomaly_score < call.evals[2].anomaly_score
    /\ call.evals[2].anomaly_score = 100000

\* C23: for a signal of every length, one shorter than the window included,
\* create_sliding_windows returns floor((len - w) / h) + 1 windows of length
\* w, window i (counted from 0) being the samples from index i * h on, all
\* of them inside the signal.
C23_SlidingWindows ==
    call.phase = "windowed" =>
        /\ ~call.out.raised
        /\ Len(call.out.windows) =
               (Len(call.audio) - call.window_size) \div call.hop_size + 1
        /\ \A i \in 1..Len(call.out.windows) :
              /\ Len(call.out.windows[i]) = call.window_size
              /\ (i - 1) * call.hop_size + call.window_size <= Len(call.audio)
              /\ \A k \in 1..call.window_size :
                    call.out.windows[i][k] = call.audio[(i - 1) * call.hop_size + k]

(***************************************************************************)
(* Further properties of the frames sent (specification Spec).             *)
(***************************************************************************)
\* C24: every detection_result sent, whether the pair comes from the model,
\* from the baseline heuristic, from the empty-payload branch or from the
\* default of the except handler, has prediction 0 or 1, a confidence
\* between 0 and 1, and status "OK" exactly with prediction 0 and "NG"
\* exactly with prediction 1.
C24_ResultWellFormed ==
    \A c \in Clients :
        \A i \in 1..Len(outbox[c]) :
            outbox[c][i].body.type = "detection_result" =>
                /\ outbox[c][i].body.prediction \in {0, 1}
                /\ outbox[c][i].body.confidence \in 0..100000
                /\ outbox[c][i].body.status = "OK" <=> outbox[c][i].body.prediction = 0
                /\ outbox[c][i].body.status = "NG" <=> outbox[c][i].body.prediction = 1

\* C26: a stop_recording received while the connection is idle, whatever
\* its session_id and also without one, is answered by nothing, leaves the
\* session state and the binding as they were, and the loop goes on.
C26_IdleStopIgnored ==
    \A c \in Clients :
        (Handled(c, "stop_recording") /\ ~last[c].pre_ip) =>
            /\ last[c].replies = <<>>
            /\ SessionUntouched(c)
            /\ last[c].next = "recv"

\* C27: between a recording_started{s} and a later recording_started for
\* another session on the same connection there is a recording_stopped{s};
\* and a start_recording received while recording leaves the bound session
\* as it was.
C27_StartedThenStopped ==
    \A c \in Clients :
        /\ \A i, j \in 1..Len(outbox[c]) :
              (/\ i < j
               /\ outbox[c][i].body.type = "recording_started"
               /\ outbox[c][j].body.type = "recording_started"
               /\ outbox[c][j].body.session_id /= outbox[c][i].body.session_id) =>
                  \E k \in (i + 1)..(j - 1) :
                      /\ outbox[c][k].body.type = "recording_stopped"
                      /\ outbox[c][k].body.session_id = outbox[c][i].body.session_id
        /\ (Handled(c, "start_recording") /\ last[c].pre_ip) =>
              recording_session[c] = last[c].pre_rs

(***************************************************************************)
(* Properties of the stale scan (specification SpecStale).                 *)
(***************************************************************************)
\* C29: the last_activity of a registered client is never older than the
\* last protocol frame its endpoint received from it or sent to it, and so
\* a client that cleanup_stale_connections found stale had no such frame in
\* the timeout before the scan.
C29_ActiveNotStale ==
    /\ \A c \in client_metadata : clock.last_activity[c] >= clock.last_message[c]
    /\ bg.hb.pc = "cleaning" =>
          \A c \in bg.hb.stale :
              \/ bg.hb.at - clock.last_message[c] > StaleTimeout
              \/ clock.last_message[c] > bg.hb.at

(***************************************************************************)
(* Properties of load_model (specification SpecLoad).                      *)
(***************************************************************************)
\* C25: as long as the model can be built, load_model returns True whether
\* there is a checkpoint or not, with the freshly initialised baseline model
\* when the checkpoint is missing or cannot be loaded; and once it has
\* returned True a model is loaded, it is in evaluation mode after the
\* call, and a following predict returns a pair (prediction 0 or 1, from
\* the model or from the heuristic) instead of raising.
C25_LoadThenPredict ==
    /\ call.phase = "loaded" =>
          /\ (call.env.createOk \/ call.env.ckpt = "good") => call.ok
          /\ (call.env.createOk /\ call.env.ckpt /= "good") => model = "baseline"
          /\ call.ok => /\ IsModelLoaded(model)
                         /\ training.mode = "eval"
    /\ (call.phase = "predicted" /\ call.loaded) =>
          /\ IsModelLoaded(model)
          /\ call.result.source \in {"model", "baseline"}
          /\ call.result.prediction \in {0, 1}
          /\ call.result.confidence \in 0..100000
          /\ training.mode = "eval"

\* a checkpoint that does not fit the architecture was replaced by the
\* baseline model, and the predict that followed answered from it
C25_Witness ==
    /\ call.phase = "predicted"
    /\ call.loaded
    /\ call.pre_model = "baseline"
    /\ call.result.source = "model"
    /\ prediction_count = 1

\* C28: a model is loaded only once a load_model call has returned True; a
\* load_model call that returns False on a manager without a model leaves
\* it without one; and predict answers from the model only then.
C28_LoadedOnlyAfterSuccess ==
    /\ IsModelLoaded(model) => (call.phase /= "idle" /\ call.loaded)
    /\ (call.phase = "loaded" /\ ~call.ok /\ call.pre_model = "none") => model = "none"
    /\ (call.phase = "predicted" /\ call.result.source = "model") => call.loaded

(***************************************************************************)
(* Properties of the experiment tracking (specification SpecTracking).     *)
(***************************************************************************)
\* C30: after any sequence of calls of _safe_clearml_operation the failure
\* counter is between 0 and 15; an operation that succeeded leaves it at 0,
\* one that raised another error leaves it as it was, one that raised a
\* connection error adds one and, at 15, switches tracking off and clears
\* the task; and from then on no operation is run, tracking stays off and
\* the counter stays at 15.
C30_RetryCounter ==
    /\ [](/\ clearml.retry_count \in 0..DisableThreshold
          /\ clearml.op = "success" => clearml.retry_count = 0
          /\ clearml.op = "other" => clearml.retry_count = clearml.pre_count
          /\ clearml.op = "connection" =>
                /\ clearml.retry_count = clearml.pre_count + 1
                /\ clearml.enabled <=> clearml.retry_count < DisableThreshold
          /\ clearml.retry_count = DisableThreshold =>
                ~clearml.enabled /\ clearml.task = None)
    /\ [][clearml.retry_count = DisableThreshold =>
             /\ clearml'.executed = clearml.executed
             /\ clearml'.retry_count = DisableThreshold
             /\ ~clearml'.enabled
             /\ clearml'.task = None]_vars

\* tracking was switched off by the 15th connection failure in a row, and
\* the call that followed ran nothing
C30_Witness ==
    /\ clearml.retry_count = DisableThreshold
    /\ clearml.executed = DisableThreshold
    /\ clearml.op = "skipped"
    /\ clearml.connection_disabled
    /\ ~clearml.enabled

====
